---- MODULE Spec2Model ----
(***************************************************************************)
(* delphy: a graph of formula nodes built from flat node and edge          *)
(* definitions (core.rs Tree::new) and evaluated recursively with ragged   *)
(* broadcasting (core.rs Node::eval).                                      *)
(*                                                                         *)
(* A tree is an arena: `nodes` maps a node id to the node stored under it. *)
(* The Rc<Node> handles of the source all point at the allocation made in  *)
(* the node-definition loop, and that allocation is stored under its own   *)
(* id, so an input handle is modelled by the id of the node it points at.  *)
(* f64 values are modelled by integers; the formulas used stay inside      *)
(* exact integer arithmetic.                                               *)
(*                                                                         *)
(* node.rs nodes (Node::eval over constant and formula kinds) live in      *)
(* `heap`, named by allocation, since their id field need not be unique;   *)
(* database.rs Tree::new builds them from the rows of two queries.         *)
(***************************************************************************)
EXTENDS Integers, Sequences, FiniteSets, TLC

\* ------------------------------------------------------------------ bounds

\* Node ids used by the definitions fed to the builder.
NodeIds == {0, 1, 2}
\* Longest node-definition list fed to Tree::new.
MaxDefs == 3
\* Longest edge-definition list fed to Tree::new.
MaxEdges == 3
\* Longest sequence bound to a variable.
MaxLen == 3
\* Most eval calls made one after the other on a built tree.
MaxEvals == 2

\* ------------------------------------------------------- kind discriminators

KindVariable == 0
KindFormula == 1
\* Discriminators met in definitions: the two recognised ones and one that
\* falls into the `_` arm of the match.
DefKinds == {KindVariable, KindFormula, 2}

\* ------------------------------------------------------------- expressions

\* A parsed expression (evalexpr::Node) in postfix form.
Ident(s) == [t |-> "ident", s |-> s, v |-> 0]
Const(v) == [t |-> "const", s |-> "", v |-> v]
Oper(s) == [t |-> "op", s |-> s, v |-> 0]

VariableNames == {"a", "b"}
FormulaTexts == {"$1 - $0", "$0 * 2", "a + 1", "("}

\* build_operator_tree on the texts above: the operator tree of the text, or
\* a parse error for the unbalanced parenthesis.
build_operator_tree(text) ==
    CASE text = "$1 - $0" -> [ok |-> TRUE, tree |-> <<Ident("$1"), Ident("$0"), Oper("-")>>]
      [] text = "$0 * 2" -> [ok |-> TRUE, tree |-> <<Ident("$0"), Const(2), Oper("*")>>]
      [] text = "a + 1" -> [ok |-> TRUE, tree |-> <<Ident("a"), Const(1), Oper("+")>>]
      [] text = "id1 - id0" -> [ok |-> TRUE, tree |-> <<Ident("id1"), Ident("id0"), Oper("-")>>]
      [] text = "id0 * 2" -> [ok |-> TRUE, tree |-> <<Ident("id0"), Const(2), Oper("*")>>]
      [] OTHER -> [ok |-> FALSE, tree |-> <<>>]

ApplyOper(s, x, y) ==
    CASE s = "+" -> x + y
      [] s = "-" -> x - y
      [] OTHER -> x * y

\* Postfix evaluation of tree[i..] over the operand stack `stack`. An
\* identifier absent from the context fails the evaluation.
RECURSIVE EvalTokens(_, _, _, _)
EvalTokens(tree, i, stack, args) ==
    IF i > Len(tree)
    THEN IF Len(stack) = 1 THEN [ok |-> TRUE, val |-> stack[1]] ELSE [ok |-> FALSE, val |-> 0]
    ELSE LET tok == tree[i] IN
         CASE tok.t = "ident" ->
                IF tok.s \in DOMAIN args
                THEN EvalTokens(tree, i + 1, Append(stack, args[tok.s]), args)
                ELSE [ok |-> FALSE, val |-> 0]
           [] tok.t = "const" -> EvalTokens(tree, i + 1, Append(stack, tok.v), args)
           [] OTHER ->
                IF Len(stack) < 2
                THEN [ok |-> FALSE, val |-> 0]
                ELSE LET n == Len(stack) IN
                     EvalTokens(tree, i + 1,
                                Append(SubSeq(stack, 1, n - 2),
                                       ApplyOper(tok.s, stack[n - 1], stack[n])),
                                args)

\* evalexpr::Node::eval_float_with_context: every text above mentions an
\* identifier, whose value is a Float, so a successful result is a Float.
eval_float_with_context(tree, args) == EvalTokens(tree, 1, <<>>, args)

\* ------------------------------------------------------------------- nodes

NodeDefs ==
    [node_id : NodeIds, kind : {KindVariable}, value : VariableNames]
      \cup [node_id : NodeIds, kind : {KindFormula}, value : {"$1 - $0", "("}]
      \cup [node_id : NodeIds, kind : DefKinds \ {KindVariable, KindFormula}, value : {"a"}]

EdgeDefs == [node_id : NodeIds, input_id : NodeIds]

\* Node::from_variable
from_variable(node_id, variable_name) ==
    [id |-> node_id, kind |-> "Variable", name |-> variable_name,
     formula |-> <<>>, inputs |-> <<>>]

\* Node::from_formula: `.unwrap()` on the parse result panics on a parse error.
from_formula(node_id, text) ==
    LET parsed == build_operator_tree(text) IN
    IF parsed.ok
    THEN [tag |-> "Ok",
          node |-> [id |-> node_id, kind |-> "Formula", name |-> "",
                    formula |-> parsed.tree, inputs |-> <<>>]]
    ELSE [tag |-> "Panic", node |-> from_variable(node_id, "")]

\* HashMap::insert
MapInsert(map, key, val) ==
    [k \in DOMAIN map \cup {key} |-> IF k = key THEN val ELSE map[k]]

\* The node loop with the kind matched before the duplicate check, so that a
\* repeated node_id is still rejected for its kind.
NodeDefBody_kind_first(map, node_def) ==
    IF node_def.kind \notin {KindVariable, KindFormula}
    THEN [tag |-> "Err", nodes |-> map, err |-> "Invalid node type"]
    ELSE IF node_def.node_id \in DOMAIN map
    THEN [tag |-> "Ok", nodes |-> map, err |-> ""]
    ELSE IF node_def.kind = KindVariable
    THEN [tag |-> "Ok",
          nodes |-> MapInsert(map, node_def.node_id,
                              from_variable(node_def.node_id, node_def.value)),
          err |-> ""]
    ELSE LET made == from_formula(node_def.node_id, node_def.value) IN
         IF made.tag = "Ok"
         THEN [tag |-> "Ok", nodes |-> MapInsert(map, node_def.node_id, made.node),
               err |-> ""]
         ELSE [tag |-> "Panic", nodes |-> map,
               err |-> "called Result::unwrap() on an Err value"]

\* One iteration of the node-definition loop of Tree::new.
NodeDefBody(map, node_def) ==
    IF node_def.node_id \in DOMAIN map
    THEN [tag |-> "Ok", nodes |-> map, err |-> ""]
    ELSE CASE node_def.kind = KindVariable ->
                [tag |-> "Ok",
                 nodes |-> MapInsert(map, node_def.node_id,
                                     from_variable(node_def.node_id, node_def.value)),
                 err |-> ""]
           [] node_def.kind = KindFormula ->
                LET made == from_formula(node_def.node_id, node_def.value) IN
                IF made.tag = "Ok"
                THEN [tag |-> "Ok",
                      nodes |-> MapInsert(map, node_def.node_id, made.node),
                      err |-> ""]
                ELSE [tag |-> "Panic", nodes |-> map,
                      err |-> "called Result::unwrap() on an Err value"]
           [] OTHER -> [tag |-> "Err", nodes |-> map, err |-> "Invalid node type"]

\* The edge loop with the input inserted at the front of the input list.
EdgeDefBody_front(map, edge_def) ==
    IF edge_def.node_id \notin DOMAIN map
    THEN [tag |-> "Err", nodes |-> map, err |-> "node not found"]
    ELSE IF edge_def.input_id \notin DOMAIN map
    THEN [tag |-> "Err", nodes |-> map, err |-> "input node not found"]
    ELSE LET node == map[edge_def.node_id]
             pushed == [node EXCEPT !.inputs = <<edge_def.input_id>> \o @]
         IN [tag |-> "Ok", nodes |-> MapInsert(map, node.id, pushed), err |-> ""]

\* The edge loop with the two lookups in the other order.
EdgeDefBody_input_first(map, edge_def) ==
    IF edge_def.input_id \notin DOMAIN map
    THEN [tag |-> "Err", nodes |-> map, err |-> "input node not found"]
    ELSE IF edge_def.node_id \notin DOMAIN map
    THEN [tag |-> "Err", nodes |-> map, err |-> "node not found"]
    ELSE LET node == map[edge_def.node_id]
             pushed == [node EXCEPT !.inputs = Append(@, edge_def.input_id)]
         IN [tag |-> "Ok", nodes |-> MapInsert(map, node.id, pushed), err |-> ""]

\* One iteration of the edge-definition loop of Tree::new.
EdgeDefBody(map, edge_def) ==
    IF edge_def.node_id \notin DOMAIN map
    THEN [tag |-> "Err", nodes |-> map, err |-> "node not found"]
    ELSE IF edge_def.input_id \notin DOMAIN map
    THEN [tag |-> "Err", nodes |-> map, err |-> "input node not found"]
    ELSE LET node == map[edge_def.node_id]
             pushed == [node EXCEPT !.inputs = Append(@, edge_def.input_id)]
         IN [tag |-> "Ok", nodes |-> MapInsert(map, node.id, pushed), err |-> ""]

\* ------------------------------------------------------------- evaluation

\* NodeOutput
Number(v) == [kind |-> "Number", num |-> v, arr |-> <<>>]
NumberArray(vec) == [kind |-> "NumberArray", num |-> 0, arr |-> vec]
NoOutput == [kind |-> "", num |-> 0, arr |-> <<>>]

\* Result<NodeOutput>, or the panic that ends the program.
Ok(out) == [tag |-> "Ok", out |-> out, names |-> <<>>, err |-> ""]
Err(msg) == [tag |-> "Err", out |-> NoOutput, names |-> <<>>, err |-> msg]
Panic(msg) == [tag |-> "Panic", out |-> NoOutput, names |-> <<>>, err |-> msg]

\* Node::eval: an input's result as a vector.
Normalize(val) == IF val.kind = "Number" THEN <<val.num>> ELSE val.arr

\* Node::eval: format!("${}", node.id)
SynthId(id) == "$" \o ToString(id)

MaxOf(a, b) == IF a >= b THEN a ELSE b

\* The broadcast with a shorter vector starting over from its first value.
BroadcastVal_wrap(node_vals, idx_arr) == node_vals[(idx_arr % Len(node_vals)) + 1]

\* Node::eval: the value of one input at position idx_arr (0-based); a
\* shorter vector repeats its last value.
BroadcastVal(node_vals, idx_arr) ==
    IF idx_arr < Len(node_vals) THEN node_vals[idx_arr + 1] ELSE node_vals[Len(node_vals)]

\* Node::eval: the context of position idx_arr. set_value overwrites, so the
\* last input with a given identifier wins. `.expect` is evaluated for every
\* input, so an empty vector panics.
BuildArgs(node_ids, input_vals, idx_arr) ==
    IF \E k \in 1..Len(input_vals) : Len(input_vals[k]) = 0
    THEN [panic |-> TRUE, args |-> <<>>]
    ELSE [panic |-> FALSE,
          args |-> [s \in {node_ids[k] : k \in 1..Len(node_ids)} |->
                      LET last == CHOOSE k \in 1..Len(node_ids) :
                                    /\ node_ids[k] = s
                                    /\ \A j \in 1..Len(node_ids) : node_ids[j] = s => j <= k
                      IN BroadcastVal(input_vals[last], idx_arr)]]

\* Node::eval: the final match on output_vals.len().
Collapse(output_vals) ==
    CASE Len(output_vals) = 0 -> Err("The computation resulted in no output")
      [] Len(output_vals) = 1 -> Ok(Number(output_vals[1]))
      [] OTHER -> Ok(NumberArray(output_vals))

\* Node::eval: the loop over 0..max_len of a Formula node.
RECURSIVE FormulaLoop(_, _, _, _, _, _)
FormulaLoop(formula, node_ids, input_vals, idx_arr, max_len, output_vals) ==
    IF idx_arr >= max_len
    THEN Collapse(output_vals)
    ELSE LET built == BuildArgs(node_ids, input_vals, idx_arr) IN
         IF built.panic
         THEN Panic("The value array from a node was empty")
         ELSE LET res == eval_float_with_context(formula, built.args) IN
              IF ~res.ok
              THEN Err("Formula evaluation failed")
              ELSE FormulaLoop(formula, node_ids, input_vals, idx_arr + 1, max_len,
                               Append(output_vals, res.val))

\* The Variable arm with zero standing in for a missing binding.
VariableArm_default(self, values) ==
    IF self.id \in DOMAIN values THEN Ok(values[self.id]) ELSE Ok(Number(0))

\* Node::eval, the Variable arm: the bound value as it is, or the
\* unbound-variable error.
VariableArm(self, values) ==
    IF self.id \in DOMAIN values
    THEN Ok(values[self.id])
    ELSE Err("missing variable value")

\* Node::eval. `borrowed` holds the nodes whose `inputs` cell is mutably
\* borrowed by a caller up the stack: borrowing it again panics. Tree::new
\* builds Variable and Formula nodes only.
RECURSIVE Node_eval(_, _, _, _)
RECURSIVE InputsLoop(_, _, _, _, _, _, _)
Node_eval(tree, id, values, borrowed) ==
    LET self == tree[id] IN
    IF self.kind = "Variable"
    THEN VariableArm(self, values)
    ELSE IF id \in borrowed
    THEN Panic("already borrowed: BorrowMutError")
    ELSE LET ins == InputsLoop(tree, self.inputs, 1, values, borrowed \cup {id}, <<>>, 0) IN
         IF ins.tag # "Ok"
         THEN [tag |-> ins.tag, out |-> NoOutput, names |-> <<>>, err |-> ins.err]
         ELSE FormulaLoop(self.formula,
                          [k \in 1..Len(self.inputs) |-> SynthId(tree[self.inputs[k]].id)],
                          ins.input_vals, 0, ins.max_len, <<>>)

\* Node::eval: the loop over the inputs; `?` returns the first failure.
InputsLoop(tree, ins, i, values, borrowed, input_vals, max_len) ==
    IF i > Len(ins)
    THEN [tag |-> "Ok", input_vals |-> input_vals, max_len |-> max_len, err |-> ""]
    ELSE LET val == Node_eval(tree, ins[i], values, borrowed) IN
         IF val.tag # "Ok"
         THEN [tag |-> val.tag, input_vals |-> <<>>, max_len |-> 0, err |-> val.err]
         ELSE LET vec == Normalize(val.out) IN
              InputsLoop(tree, ins, i + 1, values, borrowed,
                         Append(input_vals, vec), MaxOf(max_len, Len(vec)))

\* Node::inputs: the ids of the input-less nodes below a node, depth first.
\* `path` holds the nodes being visited up the stack: meeting one again is a
\* recursion without end, which overflows the stack.
\* Node::inputs without the descent: the ids of the direct inputs.
Node_inputs_direct(tree, id, path) ==
    IF Len(tree[id].inputs) = 0
    THEN [ok |-> TRUE, ids |-> <<tree[id].id>>]
    ELSE [ok |-> TRUE, ids |-> tree[id].inputs]

RECURSIVE Node_inputs(_, _, _)
RECURSIVE ExtendLoop(_, _, _, _, _)
Node_inputs(tree, id, path) ==
    IF id \in path
    THEN [ok |-> FALSE, ids |-> <<>>]
    ELSE IF Len(tree[id].inputs) = 0
    THEN [ok |-> TRUE, ids |-> <<tree[id].id>>]
    ELSE ExtendLoop(tree, tree[id].inputs, 1, path \cup {id}, <<>>)

ExtendLoop(tree, ins, i, path, ids) ==
    IF i > Len(ins)
    THEN [ok |-> TRUE, ids |-> ids]
    ELSE LET sub == Node_inputs(tree, ins[i], path) IN
         IF ~sub.ok
         THEN sub
         ELSE ExtendLoop(tree, ins, i + 1, path, ids \o sub.ids)

\* The filter_map of Tree::node_inputs.
RECURSIVE FilterNames(_, _, _)
FilterNames(tree, ids, i) ==
    IF i > Len(ids)
    THEN <<>>
    ELSE LET rest == FilterNames(tree, ids, i + 1) IN
         IF ids[i] \in DOMAIN tree /\ tree[ids[i]].kind = "Variable"
         THEN <<tree[ids[i]].name>> \o rest
         ELSE rest

\* Tree::node_inputs
Tree_node_inputs(tree, node_id) ==
    IF node_id \notin DOMAIN tree
    THEN Err("no node with id")
    ELSE LET found == Node_inputs(tree, node_id, {}) IN
         IF ~found.ok
         THEN Panic("stack overflow")
         ELSE [tag |-> "Ok", out |-> NoOutput,
               names |-> FilterNames(tree, found.ids, 1), err |-> ""]

\* -------------------------------------------------------------------- state

VARIABLES
    pc,                 \* where the program is: "nodes", "edges" (the loops of
                        \* Tree::new), "built", "failed", "panicked"
    nodes,              \* the node map of Tree::new, then of the Tree
    nodes_definitions,  \* the node definitions consumed so far
    edge_definitions,   \* the edge definitions consumed so far
    err,                \* the error Tree::new returned, or the panic message
    call,               \* the last call made on the built tree and its result
    evals,              \* the number of eval calls made on the built tree
    heap,               \* node.rs: the Node allocations, by handle
    root_node_id,       \* database.rs: the argument of Tree::new
    root                \* database.rs: the handle captured as root, or NoRoot

vars == <<pc, nodes, nodes_definitions, edge_definitions, err, call, evals,
          heap, root_node_id, root>>

\* The state of node.rs and database.rs, which core.rs does not touch.
NoRoot == -1

node_vars == <<heap, root_node_id, root>>

NoNodeState ==
    /\ heap = <<>>
    /\ root_node_id = NoRoot
    /\ root = NoRoot

NoCall == [op |-> "none", node_id |-> -1, values |-> <<>>, res |-> Ok(NoOutput)]

Init ==
    /\ pc = "nodes"
    /\ nodes = <<>>
    /\ nodes_definitions = <<>>
    /\ edge_definitions = <<>>
    /\ err = ""
    /\ call = NoCall
    /\ evals = 0
    /\ NoNodeState

Outcome(tag, next) ==
    CASE tag = "Ok" -> next
      [] tag = "Err" -> "failed"
      [] OTHER -> "panicked"

\* Tree::new, node-definition loop: the next definition of the list.
NodeDefStep ==
    /\ pc = "nodes"
    /\ Len(nodes_definitions) < MaxDefs
    /\ \E node_def \in NodeDefs :
         LET r == NodeDefBody(nodes, node_def) IN
         /\ nodes_definitions' = Append(nodes_definitions, node_def)
         /\ nodes' = r.nodes
         /\ err' = r.err
         /\ pc' = Outcome(r.tag, "nodes")
    /\ UNCHANGED <<edge_definitions, call, evals, node_vars>>

\* Tree::new, end of the node-definition list. The list is not read again.
NodeDefsDone ==
    /\ pc = "nodes"
    /\ pc' = "edges"
    /\ nodes_definitions' = <<>>
    /\ UNCHANGED <<nodes, edge_definitions, err, call, evals, node_vars>>

\* Tree::new, edge-definition loop: the next definition of the list.
EdgeDefStep ==
    /\ pc = "edges"
    /\ Len(edge_definitions) < MaxEdges
    /\ \E edge_def \in EdgeDefs :
         LET r == EdgeDefBody(nodes, edge_def) IN
         /\ edge_definitions' = Append(edge_definitions, edge_def)
         /\ nodes' = r.nodes
         /\ err' = r.err
         /\ pc' = Outcome(r.tag, "edges")
    /\ UNCHANGED <<nodes_definitions, call, evals, node_vars>>

\* Tree::new, end of the edge-definition list: `return Ok(tree)`.
TreeNewReturn ==
    /\ pc = "edges"
    /\ pc' = "built"
    /\ UNCHANGED <<nodes, nodes_definitions, edge_definitions, err, call, evals, node_vars>>

\* Tree::node_inputs called on the built tree.
NodeInputsCall ==
    /\ pc = "built"
    /\ call = NoCall
    /\ \E node_id \in NodeIds :
         LET res == Tree_node_inputs(nodes, node_id) IN
         /\ call' = [op |-> "node_inputs", node_id |-> node_id, values |-> <<>>, res |-> res]
         /\ pc' = IF res.tag = "Panic" THEN "panicked" ELSE "built"
    /\ UNCHANGED <<nodes, nodes_definitions, edge_definitions, err, evals, node_vars>>

\* The caller drops the result of the last call; the tree stays.
CallReturn ==
    /\ pc = "built"
    /\ call # NoCall
    /\ call' = NoCall
    /\ UNCHANGED <<pc, nodes, nodes_definitions, edge_definitions, err, evals, heap,
                   root_node_id, root>>

Next ==
    \/ NodeDefStep
    \/ NodeDefsDone
    \/ EdgeDefStep
    \/ TreeNewReturn
    \/ NodeInputsCall
    \/ CallReturn

Spec == Init /\ [][Next]_vars

\* ------------------------------------------------- evaluation of built trees

\* Tree::new as a whole: the two loops run over complete lists.
RECURSIVE NodeDefLoop(_, _, _)
NodeDefLoop(map, defs, i) ==
    IF i > Len(defs)
    THEN [tag |-> "Ok", nodes |-> map, err |-> ""]
    ELSE LET r == NodeDefBody(map, defs[i]) IN
         IF r.tag # "Ok" THEN r ELSE NodeDefLoop(r.nodes, defs, i + 1)

RECURSIVE EdgeDefLoop(_, _, _)
EdgeDefLoop(map, edges, i) ==
    IF i > Len(edges)
    THEN [tag |-> "Ok", nodes |-> map, err |-> ""]
    ELSE LET r == EdgeDefBody(map, edges[i]) IN
         IF r.tag # "Ok" THEN r ELSE EdgeDefLoop(r.nodes, edges, i + 1)

Tree_new(defs, edges) ==
    LET made == NodeDefLoop(<<>>, defs, 1) IN
    IF made.tag # "Ok" THEN made ELSE EdgeDefLoop(made.nodes, edges, 1)

\* The definitions the evaluated trees are built from: one definition per
\* node id, a variable or a formula that parses, and edges from a node to a
\* node of smaller id, so that the edge list is acyclic.
EvalDefsOf(id) ==
    [node_id : {id}, kind : {KindVariable}, value : {"a"}]
      \cup [node_id : {id}, kind : {KindFormula}, value : FormulaTexts \ {"("}]

EvalDefLists == {<<d0, d1, d2>> : d0 \in EvalDefsOf(0), d1 \in EvalDefsOf(1), d2 \in EvalDefsOf(2)}

EvalEdgeDefs == {e \in EdgeDefs : e.input_id < e.node_id}

EvalEdgeLists == UNION {[1..n -> EvalEdgeDefs] : n \in 0..MaxEdges}

\* The values a variable is bound to: a scalar, and one sequence of every
\* length up to MaxLen, the empty one included, with pairwise distinct
\* elements.
Ramp(len) == [i \in 1..len |-> 10 * len + i]

BindVals == {Number(3)} \cup {NumberArray(Ramp(len)) : len \in 0..MaxLen}

\* Node::eval reads the binding map at the ids of Variable nodes only
\* (values.get(&self.id) in the Variable arm), so the binding maps are the
\* partial maps over the Variable nodes of the tree.
VariableIds(tree) == {id \in DOMAIN tree : tree[id].kind = "Variable"}

Bindings(tree) == UNION {[ids -> BindVals] : ids \in SUBSET VariableIds(tree)}

InitEval ==
    /\ pc = "built"
    /\ \E defs \in EvalDefLists, edges \in EvalEdgeLists :
         LET made == Tree_new(defs, edges) IN
         /\ made.tag = "Ok"
         /\ nodes = made.nodes
         /\ edge_definitions = edges
    /\ nodes_definitions = <<>>
    /\ err = ""
    /\ call = NoCall
    /\ evals = 0
    /\ NoNodeState

\* An eval that empties the input list of the node it is called on, as if
\* the borrowed vector were drained while it is iterated.
Node_eval_effect_drain(tree, id, values) ==
    [tree EXCEPT ![id] = [tree[id] EXCEPT !.inputs = <<>>]]

\* Node::eval, what a call leaves of the tree. eval takes `&self` and
\* `&HashMap`; the only mutable access is `self.inputs.borrow_mut()`, and the
\* RefMut is used for `inputs.iter()` alone: nothing is written through it,
\* on the paths that return Ok and on those that return Err alike.
Node_eval_effect(tree, id, values) == tree

\* Node::eval called on a node of the built tree with a binding map.
EvalCall ==
    /\ pc = "built"
    /\ call = NoCall
    /\ evals < MaxEvals
    /\ \E node_id \in DOMAIN nodes, values \in Bindings(nodes) :
         LET res == Node_eval(nodes, node_id, values, {}) IN
         /\ call' = [op |-> "eval", node_id |-> node_id, values |-> values, res |-> res]
         /\ nodes' = Node_eval_effect(nodes, node_id, values)
         /\ pc' = IF res.tag = "Panic" THEN "panicked" ELSE "built"
    /\ evals' = evals + 1
    /\ UNCHANGED <<nodes_definitions, edge_definitions, err, node_vars>>

NextEval ==
    \/ EvalCall
    \/ CallReturn

SpecEval == InitEval /\ [][NextEval]_vars

\* ------------------------------------------------------ claims: Tree::new

RECURSIVE InputIdsOf(_, _)
InputIdsOf(edges, n) ==
    IF edges = <<>>
    THEN <<>>
    ELSE (IF Head(edges).node_id = n THEN <<Head(edges).input_id>> ELSE <<>>)
           \o InputIdsOf(Tail(edges), n)

\* C4: after Tree::new succeeds, the input list of every node is the
\* sequence of the input_id of the edge definitions whose node_id is that
\* node, in the order of the edge list, repeated edges included.
C4_InputsFollowEdgeOrder ==
    pc = "built" =>
        \A n \in DOMAIN nodes : nodes[n].inputs = InputIdsOf(edge_definitions, n)

\* C4 witness: a tree built from three edges, two of them for one node with
\* different inputs, the third for another node in between.
C4_Witness ==
    /\ pc = "built"
    /\ Len(edge_definitions) = 3
    /\ edge_definitions[1].node_id = edge_definitions[3].node_id
    /\ edge_definitions[1].input_id > edge_definitions[3].input_id
    /\ edge_definitions[2].node_id # edge_definitions[1].node_id

Resolves(edge_def) ==
    edge_def.node_id \in DOMAIN nodes /\ edge_def.input_id \in DOMAIN nodes

\* C5: with valid node definitions, Tree::new fails if and only if some edge
\* names a node_id or an input_id that no node definition defined; the first
\* such edge of the list decides the error, "node not found" for a missing
\* node_id and "input node not found" for a missing input_id.
C5_FailsIffDanglingEdge ==
    /\ pc = "nodes" =>
         DOMAIN nodes = {nodes_definitions[i].node_id : i \in 1..Len(nodes_definitions)}
    /\ (pc \in {"edges", "built"} \/ (pc = "panicked" /\ call # NoCall)) =>
         \A i \in 1..Len(edge_definitions) : Resolves(edge_definitions[i])
    /\ (pc = "failed" /\ edge_definitions # <<>>) =>
         LET last == edge_definitions[Len(edge_definitions)] IN
         /\ \A i \in 1..(Len(edge_definitions) - 1) : Resolves(edge_definitions[i])
         /\ ~Resolves(last)
         /\ err = IF last.node_id \notin DOMAIN nodes
                  THEN "node not found"
                  ELSE "input node not found"
         /\ call = NoCall

\* C5 witness: Tree::new has failed on its third edge, whose node_id and
\* input_id are both undefined.
C5_Witness ==
    /\ pc = "failed"
    /\ Len(edge_definitions) = 3
    /\ edge_definitions[3].node_id \notin DOMAIN nodes
    /\ edge_definitions[3].input_id \notin DOMAIN nodes
    /\ err = "node not found"

Recognised(node_def) == node_def.kind \in {KindVariable, KindFormula}

\* The definition at position i is the first of the list with its node_id.
FirstOfItsId(defs, i) == \A j \in 1..(i - 1) : defs[j].node_id # defs[i].node_id

\* C6 as stated: Tree::new fails with the invalid-node-kind error whenever
\* the node definition list holds a definition of unrecognised kind, also
\* when an earlier definition with the same node_id was accepted.
C6_AnyInvalidKindFails ==
    (\E i \in 1..Len(nodes_definitions) : ~Recognised(nodes_definitions[i])) =>
        (pc = "failed" /\ err = "Invalid node type")

\* C6 amended: Tree::new fails with the invalid-node-kind error exactly when
\* it reaches a definition of unrecognised kind whose node_id no earlier
\* definition has; a definition whose node_id was already defined is skipped
\* whatever its kind.
C6_FirstOfIdInvalidKindFails ==
    LET defs == nodes_definitions
        rejected == {i \in 1..Len(defs) : ~Recognised(defs[i]) /\ FirstOfItsId(defs, i)}
    IN /\ rejected # {} => (pc = "failed" /\ err = "Invalid node type"
                            /\ rejected = {Len(defs)})
       /\ (pc = "failed" /\ defs # <<>>) => rejected = {Len(defs)}
       /\ (pc = "nodes" /\ defs # <<>> /\ ~FirstOfItsId(defs, Len(defs))) =>
            nodes[defs[Len(defs)].node_id].id = defs[Len(defs)].node_id

\* C6 witness: the node loop has skipped a definition of unrecognised kind
\* with a known node_id and then failed on one with a new node_id.
C6_Witness ==
    /\ pc = "failed"
    /\ err = "Invalid node type"
    /\ Len(nodes_definitions) = 3
    /\ ~Recognised(nodes_definitions[2])
    /\ ~FirstOfItsId(nodes_definitions, 2)

\* C7: when the text of a Formula definition fails to parse, Tree::new
\* returns an error to its caller; the program is not aborted.
C7_ParseFailureIsReturned ==
    LET defs == nodes_definitions IN
    (/\ defs # <<>>
     /\ defs[Len(defs)].kind = KindFormula
     /\ FirstOfItsId(defs, Len(defs))
     /\ ~build_operator_tree(defs[Len(defs)].value).ok) =>
        pc = "failed"

\* ------------------------------------------------- claims: Tree::node_inputs

\* No node reaches itself by following inputs.
Acyclic(tree) ==
    \E rank \in [DOMAIN tree -> 0..Cardinality(DOMAIN tree)] :
        \A n \in DOMAIN tree :
            \A k \in 1..Len(tree[n].inputs) : rank[tree[n].inputs[k]] < rank[n]

\* The node a path of input positions leads to from n, or -1 when the path
\* leaves the tree.
RECURSIVE Follow(_, _, _)
Follow(tree, n, path) ==
    IF path = <<>>
    THEN n
    ELSE IF Head(path) > Len(tree[n].inputs)
    THEN -1
    ELSE Follow(tree, tree[n].inputs[Head(path)], Tail(path))

\* The paths from n that end at an input-less node.
LeafPaths(tree, n) ==
    {path \in UNION {[1..len -> 1..MaxEdges] : len \in 0..MaxEdges} :
        LET end == Follow(tree, n, path) IN
        end # -1 /\ Len(tree[end].inputs) = 0}

\* Depth-first order is the lexicographic order of the paths; no leaf path
\* is a prefix of another.
LexLess(p, q) ==
    \E i \in 1..Len(p) :
        /\ i <= Len(q)
        /\ \A j \in 1..(i - 1) : p[j] = q[j]
        /\ p[i] < q[i]

RECURSIVE NamesInOrder(_, _, _)
NamesInOrder(tree, n, paths) ==
    IF paths = {}
    THEN <<>>
    ELSE LET first == CHOOSE p \in paths : \A q \in paths \ {p} : LexLess(p, q)
             leaf == tree[Follow(tree, n, first)]
         IN (IF leaf.kind = "Variable" THEN <<leaf.name>> ELSE <<>>)
              \o NamesInOrder(tree, n, paths \ {first})

\* C8: on an acyclic tree, node_inputs of a node present in the tree returns
\* the names of the Variable nodes among the input-less nodes reached from
\* it, one per path, in depth-first order; for an absent id it returns an
\* error.
C8_NodeInputsLeafNames ==
    (call.op = "node_inputs" /\ Acyclic(nodes)) =>
        IF call.node_id \in DOMAIN nodes
        THEN /\ call.res.tag = "Ok"
             /\ call.res.names = NamesInOrder(nodes, call.node_id,
                                              LeafPaths(nodes, call.node_id))
        ELSE call.res.tag = "Err"

\* C8 witness: node_inputs has returned two names, one of them for a path
\* of two edges through an input that has an input itself.
C8_Witness ==
    /\ call.op = "node_inputs"
    /\ Acyclic(nodes)
    /\ call.res.tag = "Ok"
    /\ Len(call.res.names) = 2
    /\ \E k \in 1..Len(nodes[call.node_id].inputs) :
         Len(nodes[nodes[call.node_id].inputs[k]].inputs) > 0

\* ------------------------------------------------------ claims: Node::eval

\* The results of the direct inputs of the evaluated node, under the call's
\* binding map.
InputResults ==
    [k \in 1..Len(nodes[call.node_id].inputs) |->
        Node_eval(nodes, nodes[call.node_id].inputs[k], call.values, {})]

MinOf(a, b) == IF a <= b THEN a ELSE b

\* C1: a Formula node with at least one input, whose inputs evaluate to
\* sequences of lengths L1..Ln >= 1, evaluates to max(L1..Ln) elements, the
\* element at position p being the expression under the context that binds
\* each input's synthetic identifier to that input's element at index
\* min(p, Li - 1); eval fails when the expression does at some position.
C1_RaggedBroadcast ==
    call.op = "eval" =>
        LET self == nodes[call.node_id]
            n == Len(self.inputs)
            vec == [k \in 1..n |-> Normalize(InputResults[k].out)]
        IN (/\ self.kind = "Formula"
            /\ n >= 1
            /\ \A k \in 1..n : InputResults[k].tag = "Ok" /\ Len(vec[k]) >= 1) =>
               LET longest == CHOOSE m \in {Len(vec[k]) : k \in 1..n} :
                                \A k \in 1..n : Len(vec[k]) <= m
                   context(p) ==
                       [s \in {SynthId(self.inputs[k]) : k \in 1..n} |->
                          LET k == CHOOSE k \in 1..n : SynthId(self.inputs[k]) = s
                          IN vec[k][MinOf(p, Len(vec[k]) - 1) + 1]]
                   element(p) == eval_float_with_context(self.formula, context(p))
               IN IF \A p \in 0..(longest - 1) : element(p).ok
                  THEN /\ call.res.tag = "Ok"
                       /\ Normalize(call.res.out) = [p \in 1..longest |-> element(p - 1).val]
                  ELSE call.res.tag = "Err"

\* C1 witness: a formula over an input of two elements and an input of three
\* has evaluated to three elements.
C1_Witness ==
    /\ call.op = "eval"
    /\ nodes[call.node_id].kind = "Formula"
    /\ call.res.tag = "Ok"
    /\ Len(Normalize(call.res.out)) = 3
    /\ \E j, k \in 1..Len(nodes[call.node_id].inputs) :
         /\ InputResults[j].tag = "Ok" /\ Len(Normalize(InputResults[j].out)) = 2
         /\ InputResults[k].tag = "Ok" /\ Len(Normalize(InputResults[k].out)) = 3

\* C2: a successful eval of a node of any kind, Variable included, reports a
\* scalar exactly when the result has one element and never returns a result
\* of zero elements.
C2_CollapseEveryKind ==
    (call.op = "eval" /\ call.res.tag = "Ok") =>
        /\ Len(Normalize(call.res.out)) >= 1
        /\ (call.res.out.kind = "Number") <=> (Len(Normalize(call.res.out)) = 1)

Range(seq) == {seq[i] : i \in 1..Len(seq)}

\* The nodes reached from the nodes of `frontier` by following inputs: of
\* every node, or (formulas_only) of Formula nodes only, as eval does.
RECURSIVE Reach(_, _, _, _)
Reach(tree, frontier, seen, formulas_only) ==
    IF frontier \subseteq seen
    THEN seen
    ELSE LET new == frontier \ seen
             next == UNION {IF formulas_only /\ tree[m].kind # "Formula"
                            THEN {}
                            ELSE Range(tree[m].inputs) : m \in new}
         IN Reach(tree, next, seen \cup new, formulas_only)

Unbound(ids) ==
    \E v \in ids : nodes[v].kind = "Variable" /\ v \notin DOMAIN call.values

MissingVariable(res) == res.tag = "Err" /\ res.err = "missing variable value"

\* C3 as stated: eval fails with the unbound-variable error whenever a
\* Variable node reachable from the node by following inputs has no binding,
\* whatever the sibling inputs evaluate to.
C3_UnboundAlwaysReported ==
    (call.op = "eval" /\ Unbound(Reach(nodes, {call.node_id}, {}, FALSE))) =>
        MissingVariable(call.res)

\* C3 amended: eval returns no output whenever a Variable node it reaches
\* (through the inputs of Formula nodes; the inputs of a Variable node are
\* not visited) has no binding; the failure is the unbound-variable error
\* when the node is that variable, or when it comes from an input whose
\* earlier siblings all evaluate successfully.
C3_UnboundNeverYieldsOutput ==
    call.op = "eval" =>
        LET self == nodes[call.node_id] IN
        /\ Unbound(Reach(nodes, {call.node_id}, {}, TRUE)) => call.res.tag # "Ok"
        /\ Unbound({call.node_id}) => MissingVariable(call.res)
        /\ self.kind = "Formula" =>
             \A k \in 1..Len(self.inputs) :
                 (/\ MissingVariable(InputResults[k])
                  /\ \A j \in 1..(k - 1) : InputResults[j].tag = "Ok") =>
                     MissingVariable(call.res)

\* C3 witness: a formula whose first input evaluated and whose second input
\* is an unbound variable has failed with the unbound-variable error.
C3_Witness ==
    /\ call.op = "eval"
    /\ nodes[call.node_id].kind = "Formula"
    /\ Len(nodes[call.node_id].inputs) >= 2
    /\ InputResults[1].tag = "Ok"
    /\ Unbound({nodes[call.node_id].inputs[2]})
    /\ MissingVariable(call.res)

\* C9: the formula "a + 1" whose single input is a Variable named a,
\* evaluated with that variable bound to 3, yields the scalar 4.
C9_FormulaReadsVariableByName ==
    LET self == nodes[call.node_id] IN
    (/\ call.op = "eval"
     /\ self.kind = "Formula"
     /\ self.formula = build_operator_tree("a + 1").tree
     /\ Len(self.inputs) = 1
     /\ nodes[self.inputs[1]].kind = "Variable"
     /\ nodes[self.inputs[1]].name = "a"
     /\ self.inputs[1] \in DOMAIN call.values
     /\ call.values[self.inputs[1]] = Number(3)) =>
        call.res = Ok(Number(4))

\* C10: on a tree built from an acyclic edge list, eval ends by returning an
\* output or an error value, never by aborting the program, and a failing
\* input makes it return an error.
C10_EvalAlwaysReturns ==
    (call.op = "eval" /\ Acyclic(nodes)) =>
        /\ call.res.tag \in {"Ok", "Err"}
        /\ (/\ nodes[call.node_id].kind = "Formula"
            /\ \E k \in 1..Len(nodes[call.node_id].inputs) : InputResults[k].tag # "Ok") =>
               call.res.tag = "Err"

\* ------------------------------------------------------------ node.rs nodes

\* node.rs Node: the three constructors leave the id at 0 and the input list
\* empty; the caller assigns `id` and `inputs` afterwards. No constructor
\* makes a SqlQuery node.
node_from_float(value) ==
    [id |-> 0, kind |-> "Number", num |-> value, arr |-> <<>>, formula |-> <<>>,
     inputs |-> <<>>]

node_from_float_vec(vec) ==
    [id |-> 0, kind |-> "NumberArray", num |-> 0, arr |-> vec, formula |-> <<>>,
     inputs |-> <<>>]

\* node.rs Node::from_formula: `.unwrap()` panics on a parse error.
node_from_formula(formula) ==
    LET parsed == build_operator_tree(formula) IN
    IF ~parsed.ok
    THEN [tag |-> "Panic", node |-> <<>>]
    ELSE [tag |-> "Ok",
          node |-> [id |-> 0, kind |-> "Formula", num |-> 0, arr |-> <<>>,
                    formula |-> parsed.tree, inputs |-> <<>>]]

\* node.rs Node::eval: format!("id{}", node.id)
NodeIdent(id) == "id" \o ToString(id)

\* node.rs Node::eval: the loop over 0..max_len. A Number node pushes its
\* value, a NumberArray node appends its whole vector, a Formula node
\* evaluates its expression under the context of the position.
RECURSIVE NodeRs_OutputLoop(_, _, _, _, _, _)
NodeRs_OutputLoop(self, node_ids, input_vals, idx_arr, max_len, output_vals) ==
    IF idx_arr >= max_len
    THEN Collapse(output_vals)
    ELSE CASE self.kind = "Number" ->
                NodeRs_OutputLoop(self, node_ids, input_vals, idx_arr + 1, max_len,
                                  Append(output_vals, self.num))
           [] self.kind = "NumberArray" ->
                NodeRs_OutputLoop(self, node_ids, input_vals, idx_arr + 1, max_len,
                                  output_vals \o self.arr)
           [] OTHER ->
                LET built == BuildArgs(node_ids, input_vals, idx_arr) IN
                IF built.panic
                THEN Panic("The value array from a node was empty")
                ELSE LET res == eval_float_with_context(self.formula, built.args) IN
                     IF ~res.ok
                     THEN Err("Formula evaluation failed")
                     ELSE NodeRs_OutputLoop(self, node_ids, input_vals, idx_arr + 1,
                                            max_len, Append(output_vals, res.val))

\* node.rs Node::eval on the allocation h of the heap hp. The inputs are
\* evaluated first, whatever the kind of the node, and `?` returns the first
\* failure; then max_len is set to 1 for the two constant kinds.
RECURSIVE NodeRs_eval(_, _, _)
RECURSIVE NodeRs_InputsLoop(_, _, _, _, _, _)
NodeRs_eval(hp, h, borrowed) ==
    LET self == hp[h] IN
    IF h \in borrowed
    THEN Panic("already borrowed: BorrowMutError")
    ELSE LET ins == NodeRs_InputsLoop(hp, self.inputs, 1, borrowed \cup {h}, <<>>, 0) IN
         IF ins.tag # "Ok"
         THEN [tag |-> ins.tag, out |-> NoOutput, names |-> <<>>, err |-> ins.err]
         ELSE LET max_len == IF self.kind \in {"Number", "NumberArray"}
                             THEN 1
                             ELSE ins.max_len
              IN NodeRs_OutputLoop(self,
                                   [k \in 1..Len(self.inputs) |-> NodeIdent(hp[self.inputs[k]].id)],
                                   ins.input_vals, 0, max_len, <<>>)

NodeRs_InputsLoop(hp, ins, i, borrowed, input_vals, max_len) ==
    IF i > Len(ins)
    THEN [tag |-> "Ok", input_vals |-> input_vals, max_len |-> max_len, err |-> ""]
    ELSE LET val == NodeRs_eval(hp, ins[i], borrowed) IN
         IF val.tag # "Ok"
         THEN [tag |-> val.tag, input_vals |-> <<>>, max_len |-> 0, err |-> val.err]
         ELSE LET vec == Normalize(val.out) IN
              NodeRs_InputsLoop(hp, ins, i + 1, borrowed,
                                Append(input_vals, vec), MaxOf(max_len, Len(vec)))

\* The nodes put together by hand as in tests::test_formula: a constructor,
\* then `node.id = ...` and `node.inputs = RefCell::new(vec![...])`. The node
\* of handle h gets the id h and inputs among the nodes made before it; the
\* input lists of a graph hold MaxEdges handles at most.
NodeFormulaTexts == {"id1 - id0", "id0 * 2"}

NodeRsKinds ==
    {node_from_float(3)}
      \cup {node_from_float_vec(Ramp(len)) : len \in 0..MaxLen}
      \cup {node_from_formula(text).node : text \in NodeFormulaTexts}

NodeRsInputLists(h) == UNION {[1..n -> {i \in NodeIds : i < h}] : n \in 0..MaxEdges}

NodeRsAt(h) ==
    {[[node EXCEPT !.id = h] EXCEPT !.inputs = ins] :
        node \in NodeRsKinds, ins \in NodeRsInputLists(h)}

InitNode ==
    /\ pc = "built"
    /\ nodes = <<>>
    /\ nodes_definitions = <<>>
    /\ edge_definitions = <<>>
    /\ err = ""
    /\ call = NoCall
    /\ evals = 0
    /\ root_node_id = NoRoot
    /\ root = NoRoot
    /\ \E n0 \in NodeRsAt(0), n1 \in NodeRsAt(1), n2 \in NodeRsAt(2) :
         /\ Len(n0.inputs) + Len(n1.inputs) + Len(n2.inputs) <= MaxEdges
         /\ heap = [h \in NodeIds |-> CASE h = 0 -> n0 [] h = 1 -> n1 [] OTHER -> n2]

\* node.rs Node::eval called on one of the nodes.
NodeEvalCall ==
    /\ pc = "built"
    /\ call = NoCall
    /\ \E h \in DOMAIN heap :
         LET res == NodeRs_eval(heap, h, {}) IN
         /\ call' = [op |-> "node_eval", node_id |-> h, values |-> <<>>, res |-> res]
         /\ pc' = IF res.tag = "Panic" THEN "panicked" ELSE "built"
    /\ UNCHANGED <<nodes, nodes_definitions, edge_definitions, err, evals, node_vars>>

NextNode ==
    \/ NodeEvalCall
    \/ CallReturn

SpecNode == InitNode /\ [][NextNode]_vars

\* ------------------------------------------------- claims: node.rs Node::eval

\* The vector a constant node stores.
StoredVals(node) == IF node.kind = "Number" THEN <<node.num>> ELSE node.arr

\* C11: evaluating a Constant node returns its stored scalar and evaluating a
\* ConstantSequence node returns its stored sequence (as the final collapse
\* renders it), whatever inputs are attached to the node and whether their
\* own evaluation succeeds or fails.
C11_ConstantIgnoresInputs ==
    (call.op = "node_eval" /\ heap[call.node_id].kind \in {"Number", "NumberArray"})
        => call.res = Collapse(StoredVals(heap[call.node_id]))

\* ------------------------------------------- claims: eval leaves the tree alone

\* The sets of nodes whose input list is borrowed when eval, called on n,
\* gets to m: one set for every path of inputs from n to m (inputs are
\* followed below Formula nodes only).
RECURSIVE PathSets(_, _, _, _)
PathSets(tree, n, m, on_path) ==
    IF n = m
    THEN {on_path}
    ELSE IF tree[n].kind # "Formula" \/ n \in on_path
    THEN {}
    ELSE UNION {PathSets(tree, tree[n].inputs[k], m, on_path \cup {n}) :
                    k \in 1..Len(tree[n].inputs)}

\* Within the call c every node yields the same result on every path that
\* reaches it.
SameOnEveryPath(tree, c) ==
    \A m \in DOMAIN tree :
        \A p, q \in PathSets(tree, c.node_id, m, {}) :
            Node_eval(tree, m, c.values, p) = Node_eval(tree, m, c.values, q)

KindDbFormula == 0

NodeRows ==
    [node_id : NodeIds, type : {KindDbFormula}, operation : {"id0 * 2", "("}]
      \cup [node_id : NodeIds, type : {1}, operation : {"id0 * 2"}]

EdgeRows == [node_id : NodeIds, input_id : NodeIds]

\* HashMap::remove
MapRemove(map, key) == [k \in DOMAIN map \ {key} |-> map[k]]

\* The ids reached from `frontier` along the edge rows.
RECURSIVE RowsReach(_, _, _)
RowsReach(rows, frontier, seen) ==
    IF frontier \subseteq seen
    THEN seen
    ELSE LET new == frontier \ seen
             next == {rows[k].input_id : k \in {j \in 1..Len(rows) : rows[j].node_id \in new}}
         IN RowsReach(rows, next, seen \cup new)

\* What the recursive query can return: every row starts at the root or at
\* the input of an earlier row, and the rows hold no cycle (on a cyclic edge
\* table the UNION ALL recursion does not end).
QueryRows(rows, root_id) ==
    /\ \A k \in 1..Len(rows) :
         \/ rows[k].node_id = root_id
         \/ \E j \in 1..(k - 1) : rows[j].input_id = rows[k].node_id
    /\ \A k \in 1..Len(rows) : rows[k].node_id \notin RowsReach(rows, {rows[k].input_id}, {})

\* Tree::new, body of the loop over the node rows.
DbNodeRowBody(map, hp, rt, row, root_id) ==
    IF row.node_id \in DOMAIN map
    THEN [tag |-> "Ok", nodes |-> map, heap |-> hp, root |-> rt, err |-> ""]
    ELSE IF row.type = KindDbFormula
    THEN LET made == node_from_formula(row.operation) IN
         IF made.tag # "Ok"
         THEN [tag |-> "Panic", nodes |-> map, heap |-> hp, root |-> rt,
               err |-> "called Result::unwrap() on an Err value"]
         ELSE [tag |-> "Ok",
               nodes |-> MapInsert(map, row.node_id, row.node_id),
               heap |-> [h \in DOMAIN hp \cup {row.node_id} |->
                            IF h = row.node_id THEN made.node ELSE hp[h]],
               root |-> IF row.node_id = root_id THEN row.node_id ELSE rt,
               err |-> ""]
    ELSE [tag |-> "Err", nodes |-> map, heap |-> hp, root |-> rt, err |-> "Invalid node type"]

\* Tree::new, body of the loop over the edge rows: the node is removed from
\* the map under node_id, the input is looked up in what is left, and the
\* node is inserted again under `node.id`, the id field of the node.
DbEdgeRowBody(map, hp, row) ==
    IF row.node_id \notin DOMAIN map
    THEN [tag |-> "Err", nodes |-> map, heap |-> hp, err |-> "node not found"]
    ELSE LET node == map[row.node_id]
             removed == MapRemove(map, row.node_id)
         IN IF row.input_id \notin DOMAIN removed
            THEN [tag |-> "Err", nodes |-> removed, heap |-> hp, err |-> "input node not found"]
            ELSE LET pushed == [hp EXCEPT ![node].inputs = Append(@, removed[row.input_id])]
                 IN [tag |-> "Ok",
                     nodes |-> MapInsert(removed, pushed[node].id, node),
                     heap |-> pushed,
                     err |-> ""]

InitDb ==
    /\ pc = "nodes"
    /\ nodes = <<>>
    /\ nodes_definitions = <<>>
    /\ edge_definitions = <<>>
    /\ err = ""
    /\ call = NoCall
    /\ evals = 0
    /\ heap = <<>>
    /\ root_node_id \in NodeIds
    /\ root = NoRoot

\* Tree::new, loop over the node rows: the next row. node_id is the primary
\* key of the table, so no two rows share it.
DbNodeRowStep ==
    /\ pc = "nodes"
    /\ Len(nodes_definitions) < MaxDefs
    /\ \E row \in NodeRows :
         /\ \A k \in 1..Len(nodes_definitions) : nodes_definitions[k].node_id # row.node_id
         /\ LET r == DbNodeRowBody(nodes, heap, root, row, root_node_id) IN
            /\ nodes_definitions' = Append(nodes_definitions, row)
            /\ nodes' = r.nodes
            /\ heap' = r.heap
            /\ root' = r.root
            /\ err' = r.err
            /\ pc' = Outcome(r.tag, "nodes")
    /\ UNCHANGED <<edge_definitions, call, evals, root_node_id>>

\* Tree::new, end of the node rows. The rows are not read again.
DbNodeRowsDone ==
    /\ pc = "nodes"
    /\ pc' = "edges"
    /\ nodes_definitions' = <<>>
    /\ UNCHANGED <<nodes, edge_definitions, err, call, evals, node_vars>>

\* Tree::new, loop over the edge rows: the next row.
DbEdgeRowStep ==
    /\ pc = "edges"
    /\ Len(edge_definitions) < MaxEdges
    /\ \E row \in EdgeRows :
         /\ QueryRows(Append(edge_definitions, row), root_node_id)
         /\ LET r == DbEdgeRowBody(nodes, heap, row) IN
            /\ edge_definitions' = Append(edge_definitions, row)
            /\ nodes' = r.nodes
            /\ heap' = r.heap
            /\ err' = r.err
            /\ pc' = Outcome(r.tag, "edges")
    /\ UNCHANGED <<nodes_definitions, call, evals, root_node_id, root>>

\* Tree::new, end of the edge rows: the root check and the return. The node
\* rows were selected by the ids the edge rows name, so the list of edge rows
\* ends only once it names the id of every node row.
DbReturn ==
    /\ pc = "edges"
    /\ DOMAIN heap \subseteq
         {edge_definitions[k].node_id : k \in 1..Len(edge_definitions)}
           \cup {edge_definitions[k].input_id : k \in 1..Len(edge_definitions)}
    /\ IF root = NoRoot
       THEN pc' = "failed" /\ err' = "Root node not found"
       ELSE pc' = "built" /\ err' = err
    /\ UNCHANGED <<nodes, nodes_definitions, edge_definitions, call, evals, node_vars>>

NextDb ==
    \/ DbNodeRowStep
    \/ DbNodeRowsDone
    \/ DbEdgeRowStep
    \/ DbReturn

SpecDb == InitDb /\ [][NextDb]_vars

\* ------------------------------------------- claims: database.rs Tree::new

\* C13: in the database-backed builder, after each edge row is processed
\* every constructed node is still indexed in the node map under the node_id
\* it was defined with, so a later edge row does not miss a constructed node,
\* and the finished tree holds every constructed node under its own id.
C13_NodesKeptUnderOwnId ==
    /\ pc \in {"edges", "built"} =>
         \A h \in DOMAIN heap : h \in DOMAIN nodes /\ nodes[h] = h
    /\ (pc = "failed" /\ err = "node not found") =>
         edge_definitions[Len(edge_definitions)].node_id \notin DOMAIN heap

====
